---------------------------- MODULE Spec2Model ----------------------------
(***************************************************************************)
(* Model of the HCT colour core of material_you_palette.                   *)
(*                                                                         *)
(* f64 values are modelled as signed fixed-point numbers with 20 binary    *)
(* fraction digits (the integer v stands for v / 2^20), so that the        *)
(* conversions are computed by the same formulas as the program, with      *)
(* powf / cbrt / atan2 / sin / cos evaluated by series.  All intermediate  *)
(* values stay below 2^31.                                                 *)
(***************************************************************************)
EXTENDS Integers, Sequences, FiniteSets, TLC

VARIABLES
    internal_hue,     \* Hct.internal_hue    (fixed-point degrees)
    internal_chroma,  \* Hct.internal_chroma (fixed-point)
    internal_tone,    \* Hct.internal_tone   (fixed-point L*)
    argb,             \* Hct.argb            <<a, r, g, b>>
    pc,               \* where the operation in progress stands: "idle" between operations
    op,               \* the last operation called on the Hct value
    req,              \* the <<hue, chroma, tone>> that operation passes to the solver
    search,           \* the state of the solver's search
    ret,              \* the colour handed to set_internal_state
    before,           \* the Hct value the last operation was called on
    nops,             \* number of operations called so far
    hexin,            \* the string handed to argb_from_hex
    hexout            \* its outcome: none yet, a panic, or the colour returned

vars == <<internal_hue, internal_chroma, internal_tone, argb, pc, op, req, search, ret,
          before, nops, hexin, hexout>>

---------------------------------------------------------------------------
(* f64 arithmetic in fixed point.                                          *)
(*                                                                         *)
(* An operator that uses an argument more than once takes it through a     *)
(* function, [v \in Int |-> ...][x]: the argument is then evaluated once   *)
(* and v stands for its value.                                             *)

ONE == 2^20

Abs(x) == [v \in Int |-> IF v < 0 THEN -v ELSE v][x]
Sgn(x) == [v \in Int |-> IF v > 0 THEN 1 ELSE IF v < 0 THEN -1 ELSE 0][x]
Min(a, b) == [v \in Int, w \in Int |-> IF v <= w THEN v ELSE w][a, b]
Max(a, b) == [v \in Int, w \in Int |-> IF v >= w THEN v ELSE w][a, b]

\* The decimal literal i.micro (six fraction digits), e.g. Dec(12, 920000) = 12.92.
\* (micro * 2^20 / 10^6, rounded to nearest, in steps that stay below 2^31)
Dec(i, micro) ==
    LET thousandths == (micro \div 1000) * 131072
    IN  i * ONE + thousandths \div 125
          + ((micro % 1000) * 16384 + (thousandths % 125) * 125 + 7812) \div 15625
NDec(i, micro) == -Dec(i, micro)

\* a * b
Mul(a, b) ==
    [v \in Int, w \in Int |->
        LET ah == v \div 1024
            al == v % 1024
            bh == w \div 1024
            bl == w % 1024
            x  == ah * bl
            y  == al * bh
        IN  ah * bh + (x \div 1024) + (y \div 1024)
              + (((x % 1024) + (y % 1024) + ((al * bl + 512) \div 1024) + 512) \div 1024)
    ][a, b]

\* a / b for b > 0; a quotient beyond +-2000 saturates (f64 would go on to a huge value).
DivPos(a, b) ==
    [v \in Int, w \in Int |->
        LET sh == IF w < 2^24 THEN 1 ELSE IF w < 2^26 THEN 4 ELSE IF w < 2^28 THEN 16 ELSE 128
            bb == w \div sh
            aa == v \div sh
            q  == aa \div bb
            r  == aa % bb
            d1 == (r * 128) \div bb
            r1 == (r * 128) % bb
            d2 == (r1 * 128) \div bb
            r2 == (r1 * 128) % bb
            d3 == (r2 * 64) \div bb
        IN  IF q >= 2000 THEN 2000 * ONE
            ELSE IF q < -2000 THEN -2000 * ONE
            ELSE q * ONE + d1 * 8192 + d2 * 64 + d3
    ][a, b]

\* a / b; a zero divisor gives the saturated quotient (f64: +-inf).
Div(a, b) ==
    [v \in Int, w \in Int |->
        IF w > 0 THEN DivPos(v, w)
        ELSE IF w < 0 THEN -DivPos(v, -w)
        ELSE 2000 * ONE * Sgn(v)
    ][a, b]

LN2_26 == 46516320        \* ln 2, 26 fraction digits
PI == 3294199             \* pi
TAN_PI_8 == 434334        \* tan(pi / 8)
EXP_MAX == 7969178        \* 7.6: e^7.6 is the largest result kept

\* floor(log2 x) for 0 < x < 2^31
Log2Floor(x) ==
    [v \in Int |->
        IF v >= 2^30 THEN 30 ELSE CHOOSE e \in 0..29 : 2^e <= v /\ v < 2^(e + 1)
    ][x]

\* ln m + k ln 2 for 1 <= m < 2, u = (m - 1) / (m + 1): ln m = 2 atanh u
LnSeries(k, u) ==
    [e \in Int, v \in Int |->
        LET u2 == Mul(v, v)
            s9 == Mul(ONE \div 11, u2) + ONE \div 9
            s7 == Mul(s9, u2) + ONE \div 7
            s5 == Mul(s7, u2) + ONE \div 5
            s3 == Mul(s5, u2) + ONE \div 3
            s1 == Mul(s3, u2) + ONE
        IN  (e * LN2_26) \div 64 + 2 * Mul(v, s1)
    ][k, u]

\* ln x for x > 0 whose floor(log2) is e: x = m * 2^(e - 20) with 1 <= m < 2
LnNorm(x, e) ==
    [v \in Int, k \in Int |->
        LET m == IF k >= 20 THEN v \div 2^(k - 20) ELSE v * 2^(20 - k)
        IN  LnSeries(k - 20, DivPos(m - ONE, m + ONE))
    ][x, e]

\* f64::ln, for x > 0
Ln(x) == [v \in Int |-> LnNorm(v, Log2Floor(v))][x]

\* f64::exp: x = k ln 2 + r, e^r by its Taylor series; saturates above e^7.6
Exp(x) ==
    [v \in Int |->
        IF v >= EXP_MAX THEN 1998 * ONE
        ELSE
        LET ln2 == LN2_26 \div 64
            k  == v \div ln2
            r  == v - k * ln2
            s8 == ONE + Mul(r, ONE) \div 8
            s7 == ONE + Mul(r, s8) \div 7
            s6 == ONE + Mul(r, s7) \div 6
            s5 == ONE + Mul(r, s6) \div 5
            s4 == ONE + Mul(r, s5) \div 4
            s3 == ONE + Mul(r, s4) \div 3
            s2 == ONE + Mul(r, s3) \div 2
            s1 == ONE + Mul(r, s2)
        IN  IF k < -21 THEN 0
            ELSE IF k >= 0 THEN s1 * 2^k
            ELSE s1 \div 2^(-k)
    ][x]

\* f64::powf(x, p) for x >= 0 (0 for x = 0)
Pow(x, p) == [v \in Int, w \in Int |-> IF v <= 0 THEN 0 ELSE Exp(Mul(w, Ln(v)))][x, p]

\* f64::sqrt
Sqrt(x) == Pow(x, ONE \div 2)

\* sin x for 0 <= x <= pi / 2
SinQ(x) ==
    [v \in Int |->
        LET x2 == Mul(v, v)
            s6 == ONE - Mul(x2, ONE) \div 156
            s5 == ONE - Mul(x2, s6) \div 110
            s4 == ONE - Mul(x2, s5) \div 72
            s3 == ONE - Mul(x2, s4) \div 42
            s2 == ONE - Mul(x2, s3) \div 20
            s1 == ONE - Mul(x2, s2) \div 6
        IN  Mul(v, s1)
    ][x]

\* f64::sin (radians)
Sin(x) ==
    [r \in Int |->
        IF r <= PI \div 2 THEN SinQ(r)
        ELSE IF r <= PI THEN SinQ(PI - r)
        ELSE IF r <= PI + PI \div 2 THEN -SinQ(r - PI)
        ELSE -SinQ(2 * PI - r)
    ][x % (2 * PI)]

\* f64::cos (radians)
Cos(x) == Sin(x + PI \div 2)

\* atan w for |w| <= tan(pi / 8)
AtanS(w) ==
    [v \in Int |->
        LET w2 == Mul(v, v)
            s15 == ONE \div 15 - Mul(w2, ONE \div 17)
            s13 == ONE \div 13 - Mul(w2, s15)
            s11 == ONE \div 11 - Mul(w2, s13)
            s9  == ONE \div 9 - Mul(w2, s11)
            s7  == ONE \div 7 - Mul(w2, s9)
            s5  == ONE \div 5 - Mul(w2, s7)
            s3  == ONE \div 3 - Mul(w2, s5)
            s1  == ONE - Mul(w2, s3)
        IN  Mul(v, s1)
    ][w]

\* atan z for 0 <= z <= 1
Atan01(z) ==
    [v \in Int |->
        IF v <= TAN_PI_8 THEN AtanS(v)
        ELSE PI \div 4 + AtanS(DivPos(v - ONE, v + ONE))
    ][z]

\* f64::atan2(y, x) (radians, in (-pi, pi])
Atan2(y, x) ==
    [v \in Int, w \in Int |->
        IF v = 0 /\ w = 0 THEN 0
        ELSE
        LET ay == Abs(v)
            ax == Abs(w)
            a  == IF ay <= ax THEN Atan01(DivPos(ay, ax)) ELSE PI \div 2 - Atan01(DivPos(ax, ay))
        IN  IF v >= 0 THEN (IF w >= 0 THEN a ELSE PI - a)
            ELSE (IF w >= 0 THEN -a ELSE a - PI)
    ][y, x]

\* (x * 255.0).round().clamp(0.0, 255.0) as u8
RoundClampU8(x) ==
    [v \in Int |->
        IF v <= 0 THEN 0 ELSE IF v >= ONE THEN 255 ELSE (v * 255 + ONE \div 2) \div ONE
    ][x]

\* the f64 remainder a % b (sign of the dividend), b > 0
Rem(a, b) == [v \in Int, w \in Int |-> IF v >= 0 THEN v % w ELSE -((-v) % w)][a, b]

---------------------------------------------------------------------------
(* utils/color.rs *)

SRGB_TO_XYZ ==
    << <<Dec(0, 412339), Dec(0, 357621), Dec(0, 180510)>>,
       <<Dec(0, 212600), Dec(0, 715200), Dec(0, 72200)>>,
       <<Dec(0, 19321), Dec(0, 119164), Dec(0, 950345)>> >>

XYZ_TO_SRGB ==
    << <<Dec(3, 241377), NDec(1, 537665), NDec(0, 498854)>>,
       <<NDec(0, 969145), Dec(1, 875885), Dec(0, 41566)>>,
       <<Dec(0, 55621), NDec(0, 203955), Dec(1, 57180)>> >>

\* utils/math.rs: row times 3x3 matrix
matrix_multiply(row, matrix) ==
    [r \in Seq(Int), m \in Seq(Seq(Int)) |->
        << Mul(r[1], m[1][1]) + Mul(r[2], m[1][2]) + Mul(r[3], m[1][3]),
           Mul(r[1], m[2][1]) + Mul(r[2], m[2][2]) + Mul(r[3], m[2][3]),
           Mul(r[1], m[3][1]) + Mul(r[2], m[3][2]) + Mul(r[3], m[3][3]) >>
    ][row, matrix]

\* argb_from_rgb with the alpha channel last, as the hex strings have it
argb_from_rgb_alpha_last(rgb) == [v \in Seq(Int) |-> <<v[1], v[2], v[3], 255>>][rgb]

argb_from_rgb(rgb) == [v \in Seq(Int) |-> <<255, v[1], v[2], v[3]>>][rgb]

alpha_from_argb(c) == c[1]
red_from_argb(c) == c[2]
green_from_argb(c) == c[3]
blue_from_argb(c) == c[4]

\* u8 channel -> linear value in [0, 100]
linearized(rgb_comp) ==
    [normalized \in Int |->
        IF normalized <= Dec(0, 40450)                       \* 0.040449936
        THEN DivPos(normalized, Dec(12, 920000)) * 100
        ELSE Pow(DivPos(normalized + Dec(0, 55000), Dec(1, 55000)), Dec(2, 400000)) * 100
    ][DivPos(rgb_comp, 255)]

\* delinearized with the cast to u8 truncating where the code rounds
delinearized_truncating(rgb_comp) ==
    [normalized \in Int |->
        [d \in Int |->
            IF d <= 0 THEN 0 ELSE IF d >= ONE THEN 255 ELSE (d * 255) \div ONE
        ][IF normalized <= Dec(0, 3131)
          THEN Mul(normalized, Dec(12, 920000))
          ELSE Mul(Dec(1, 55000), Pow(normalized, DivPos(ONE, Dec(2, 400000))))
                 - Dec(0, 55000)]
    ][rgb_comp \div 100]

\* linear value -> u8 channel: (delinearized * 255.0).round().clamp(0.0, 255.0) as u8
delinearized(rgb_comp) ==
    [normalized \in Int |->
        RoundClampU8(
            IF normalized <= Dec(0, 3131)                    \* 0.0031308
            THEN Mul(normalized, Dec(12, 920000))
            ELSE Mul(Dec(1, 55000), Pow(normalized, DivPos(ONE, Dec(2, 400000))))
                   - Dec(0, 55000))
    ][rgb_comp \div 100]

argb_from_linrgb(linrgb) ==
    [v \in Seq(Int) |->
        argb_from_rgb(<<delinearized(v[1]), delinearized(v[2]), delinearized(v[3])>>)
    ][linrgb]

argb_from_xyz(xyz) ==
    [rgb \in Seq(Int) |->
        argb_from_rgb(<<delinearized(rgb[1]), delinearized(rgb[2]), delinearized(rgb[3])>>)
    ][matrix_multiply(xyz, XYZ_TO_SRGB)]

xyz_from_argb(c) ==
    [v \in Seq(Int) |->
        matrix_multiply(<<linearized(v[2]), linearized(v[3]), linearized(v[4])>>, SRGB_TO_XYZ)
    ][c]

\* 116.0 * lab_f(t): the product is taken inside each branch, so that the linear
\* branch gives kappa * t + 16 exactly (f64 gives 116 * (16 / 116) = 16).
lab_f116(t) ==
    [v \in Int |->
        IF v > DivPos(216, 24389)
        THEN 116 * Pow(v, DivPos(1, 3))
        ELSE Mul(DivPos(24389, 27), v) + 16 * ONE
    ][t]

lab_invf(ft) ==
    [v \in Int, ft3 \in Int |->
        IF ft3 > DivPos(216, 24389) THEN ft3
        ELSE Div(116 * v - 16 * ONE, DivPos(24389, 27))
    ][ft, Mul(Mul(ft, ft), ft)]

\* lstar_from_argb without the offset of L* = 116 f(y) - 16
lstar_from_argb_unshifted(c) == lab_f116(xyz_from_argb(c)[2] \div 100)

lstar_from_argb(c) == lab_f116(xyz_from_argb(c)[2] \div 100) - 16 * ONE

\* y_from_lstar without the offset of (L* + 16) / 116
y_from_lstar_unshifted(lstar) ==
    [ft \in Int |-> 100 * lab_invf(ft)][Div(lstar, 116 * ONE)]

y_from_lstar(lstar) ==
    [ft \in Int |-> 100 * lab_invf(ft)][Div(lstar + 16 * ONE, 116 * ONE)]

argb_from_lstar(lstar) ==
    [w \in Int |-> argb_from_rgb(<<w, w, w>>)][delinearized(y_from_lstar(lstar))]

---------------------------------------------------------------------------
(* utils/math.rs *)

sanitize_degrees_double(degrees) ==
    [d \in Int |-> IF d < 0 THEN d + 360 * ONE ELSE d][Rem(degrees, 360 * ONE)]

\* rotation_direction that measures the rotation from `to` back to `from`
rotation_direction_reversed(from, to) ==
    [increasing_difference \in Int |->
        IF increasing_difference <= 180 * ONE THEN ONE ELSE -ONE
    ][sanitize_degrees_double(from - to)]

\* rotation_direction that takes the decreasing direction at half a turn
rotation_direction_strict(from, to) ==
    [increasing_difference \in Int |->
        IF increasing_difference < 180 * ONE THEN ONE ELSE -ONE
    ][sanitize_degrees_double(to - from)]

rotation_direction(from, to) ==
    [increasing_difference \in Int |->
        IF increasing_difference <= 180 * ONE THEN ONE ELSE -ONE
    ][sanitize_degrees_double(to - from)]

\* difference_degrees without the absolute value of a - b
difference_degrees_signed(a, b) == 180 * ONE - Abs((a - b) - 180 * ONE)

difference_degrees(a, b) == 180 * ONE - Abs(Abs(a - b) - 180 * ONE)

to_radians(degrees) == Mul(degrees, PI) \div 180
to_degrees(radians) == Div(180 * radians, PI)

---------------------------------------------------------------------------
(* hct/viewing_conditions.rs: the standard environment (D65 white point,   *)
(* mid-gray background, average surround), with its cached factors.        *)

ViewingConditions ==
    [ n       |-> Dec(0, 184187),
      aw      |-> Dec(29, 980997),
      nbb     |-> Dec(1, 16919),
      ncb     |-> Dec(1, 16919),
      c       |-> Dec(0, 690000),
      nc      |-> ONE,
      rgb_d   |-> <<Dec(1, 21178), Dec(0, 986308), Dec(0, 933961)>>,
      fl      |-> Dec(0, 388481),
      fl_root |-> Dec(0, 789483),
      z       |-> Dec(1, 909170) ]

XYZ_TO_CAM16RGB ==
    << <<Dec(0, 401288), Dec(0, 650173), NDec(0, 51461)>>,
       <<NDec(0, 250268), Dec(1, 204414), Dec(0, 45854)>>,
       <<NDec(0, 2079), Dec(0, 48952), Dec(0, 953127)>> >>

CAM16RGB_TO_XYZ ==
    << <<Dec(1, 862068), NDec(1, 11255), Dec(0, 149187)>>,
       <<Dec(0, 387527), Dec(0, 621447), NDec(0, 8974)>>,
       <<NDec(0, 15842), NDec(0, 34123), Dec(1, 49964)>> >>

\* (1.64 - 0.29^n)^0.73: chroma = alpha * sqrt(J / 100), alpha = t^0.9 * this
CHROMA_COEFF ==
    Pow(Dec(1, 640000) - Pow(Dec(0, 290000), ViewingConditions.n), Dec(0, 730000))

\* 1 / 100 of (50000 / 13) * nc * ncb: p1 / 100 = e_hue * this
P1_COEFF == Mul(Mul(DivPos(500, 13), ViewingConditions.nc), ViewingConditions.ncb)

\* exponent of lightness: J / 100 = (ac / aw)^(c z)
C_Z == Mul(ViewingConditions.c, ViewingConditions.z)

---------------------------------------------------------------------------
(* hct/cam16.rs *)

\* post-adaptation non-linearity on a discounted cone response
adapted(component) ==
    [v \in Int, af \in Int |-> Sgn(v) * DivPos(400 * af, af + Dec(27, 130000))
    ][component, Pow(Mul(ViewingConditions.fl, Abs(component)) \div 100, Dec(0, 420000))]

hypot(a, b) == Sqrt(Mul(a, a) + Mul(b, b))

\* eccentricity factor 0.25 * (cos(h + 2) + 3.8), h in radians
e_hue(hue_radians) == (Cos(hue_radians + 2 * ONE) + Dec(3, 800000)) \div 4

\* the adapted cone responses of a colour (alpha is not read)
adapted_from_argb(c) ==
    [cone \in Seq(Int) |->
        << adapted(Mul(ViewingConditions.rgb_d[1], cone[1])),
           adapted(Mul(ViewingConditions.rgb_d[2], cone[2])),
           adapted(Mul(ViewingConditions.rgb_d[3], cone[3])) >>
    ][matrix_multiply(xyz_from_argb(c), XYZ_TO_CAM16RGB)]

\* hue in degrees, in [0, 360), of the opponent coordinates (a, b)
hue_from_ab(a, b) ==
    [deg \in Int |->
        IF deg < 0 THEN deg + 360 * ONE
        ELSE IF deg >= 360 * ONE THEN deg - 360 * ONE ELSE deg
    ][to_degrees(Atan2(b, a))]

\* chroma from the hue, J / 100 and the opponent coordinates
chroma_from(hue, jn, a, b, u) ==
    [h \in Int, hyp \in Int |->
        LET hp == IF h < Dec(20, 140000) THEN h + 360 * ONE ELSE h
            p1 == Mul(e_hue(to_radians(hp)), P1_COEFF)
            t  == 100 * Mul(p1, Div(hyp, u + Dec(0, 305000)))
        IN  Mul(Mul(CHROMA_COEFF, Pow(t, Dec(0, 900000))), Sqrt(jn))
    ][hue, hypot(a, b)]

\* the correlates hue, chroma and J of adapted cone responses
cam16_from_adapted(rgb_a) ==
    [v \in Seq(Int) |->
        [a \in Int, b \in Int, u \in Int, p2 \in Int |->
            [hue \in Int, jn \in Int |->
                [hue |-> hue, chroma |-> chroma_from(hue, jn, a, b, u), j |-> 100 * jn]
            ][hue_from_ab(a, b),
              Pow(Div(Mul(p2, ViewingConditions.nbb), ViewingConditions.aw), C_Z)]
        ][(11 * v[1] - 12 * v[2] + v[3]) \div 11,
          (v[1] + v[2] - 2 * v[3]) \div 9,
          (20 * v[1] + 20 * v[2] + 21 * v[3]) \div 20,
          (40 * v[1] + 20 * v[2] + v[3]) \div 20]
    ][rgb_a]

\* Cam16::from_argb
Cam16_from_argb(c) == cam16_from_adapted(adapted_from_argb(c))

\* inverse of the post-adaptation non-linearity, as a fraction of the cone
\* response of white; values beyond every displayable colour saturate
inverse_adapted(adapted_component) ==
    [v \in Int, ax \in Int |->
        IF ax >= 60 * ONE THEN Sgn(v) * Dec(0, 700000)
        ELSE Sgn(v) * Min(Pow(DivPos(Mul(Dec(27, 130000), ax), 400 * ONE - ax),
                              DivPos(ONE, Dec(0, 420000))),
                          Dec(0, 700000))
    ][adapted_component, Abs(adapted_component)]

\* the adapted cone responses from the achromatic response p2 and the
\* opponent coordinates (a, b)
adapted_from_ab(p2, a, b) ==
    [p \in Int, v \in Int, w \in Int |->
        << Mul(DivPos(460, 1403), p) + Mul(DivPos(451, 1403), v) + Mul(DivPos(288, 1403), w),
           Mul(DivPos(460, 1403), p) - Mul(DivPos(891, 1403), v) - Mul(DivPos(261, 1403), w),
           Mul(DivPos(460, 1403), p) - Mul(DivPos(220, 1403), v) - Mul(DivPos(6300, 1403), w) >>
    ][p2, a, b]

\* ... from t, p2 and the sine and cosine of the hue
adapted_from_t(t, p2, h_sin, h_cos, p1) ==
    [tv \in Int, p \in Int, hs \in Int, hc \in Int |->
        [gamma \in Int |-> adapted_from_ab(p, Mul(gamma, hc), Mul(gamma, hs))
        ][Max(-400 * ONE, Min(400 * ONE,
              Div(Mul(p + Dec(0, 305000), tv \div 100),
                  p1 + Mul(DivPos(11, 2300), Mul(tv, hc))
                     + Mul(DivPos(108, 2300), Mul(tv, hs)))))]
    ][t, p2, h_sin, h_cos]

\* the adapted cone responses of the appearance (J, chroma, hue)
adapted_from_jch(j, chroma, hue_radians) ==
    [jv \in Int, cv \in Int, hr \in Int |->
        LET jn == jv \div 100
        IN  adapted_from_t(
                IF cv = 0 \/ jv = 0 THEN 0
                ELSE Pow(Div(Div(cv, Sqrt(jn)), CHROMA_COEFF), DivPos(ONE, Dec(0, 900000))),
                Div(Mul(ViewingConditions.aw, Pow(jn, DivPos(ONE, C_Z))), ViewingConditions.nbb),
                Sin(hr), Cos(hr), Mul(e_hue(hr), P1_COEFF))
    ][j, chroma, hue_radians]

\* the colour whose adapted cone responses are rgb_a
viewed_from_adapted(rgb_a) ==
    [v \in Seq(Int), scale \in Int |->
        argb_from_xyz(matrix_multiply(
            << Div(Mul(scale, inverse_adapted(v[1])), ViewingConditions.rgb_d[1]),
               Div(Mul(scale, inverse_adapted(v[2])), ViewingConditions.rgb_d[2]),
               Div(Mul(scale, inverse_adapted(v[3])), ViewingConditions.rgb_d[3]) >>,
            CAM16RGB_TO_XYZ))
    ][rgb_a, DivPos(100 * ONE, ViewingConditions.fl)]

\* Cam16::viewed: the colour of an appearance under the standard environment
Cam16_viewed(cam) ==
    [v \in [hue : Int, chroma : Int, j : Int] |->
        viewed_from_adapted(adapted_from_jch(v.j, v.chroma, to_radians(v.hue)))
    ][cam]

---------------------------------------------------------------------------
(* hct/hct_solver.rs *)

\* adapted cone responses (as fractions of white) -> linear RGB
LINRGB_FROM_SCALED_DISCOUNT ==
    << <<Dec(1373, 219871), NDec(1100, 425119), NDec(7, 278681)>>,
       <<NDec(271, 815969), Dec(559, 658047), NDec(32, 460475)>>,
       <<Dec(1, 962290), NDec(57, 173815), Dec(308, 723320)>> >>

Y_FROM_LINRGB == <<Dec(0, 212600), Dec(0, 715200), Dec(0, 72200)>>

NoColor == <<>>

NEWTON_ROUNDS == 5

\* the tolerance of the search along chroma
CHROMA_EPSILON == Dec(0, 10000)

\* no displayable colour has more chroma than this
MAX_CHROMA == 200 * ONE

\* the linear RGB of the appearance (J, chroma, hue)
linrgb_from_jch(j, chroma, hue_radians) ==
    [v \in Seq(Int) |->
        matrix_multiply(<<inverse_adapted(v[1]), inverse_adapted(v[2]), inverse_adapted(v[3])>>,
                        LINRGB_FROM_SCALED_DISCOUNT)
    ][adapted_from_jch(j, chroma, hue_radians)]

\* the luminance Y of a linear RGB
y_from_linrgb(linrgb) ==
    [v \in Seq(Int) |->
        Mul(Y_FROM_LINRGB[1], v[1]) + Mul(Y_FROM_LINRGB[2], v[2]) + Mul(Y_FROM_LINRGB[3], v[3])
    ][linrgb]

\* Newton's iteration on J for the luminance y, from its round-th round on:
\* the colour with the hue and chroma asked for and luminance y, or NoColor
\* when no displayable colour has them
RECURSIVE newton_on_j(_, _, _, _, _)
newton_on_j(hue_radians, chroma, y, j, round) ==
    [hr \in Int, cv \in Int, yv \in Int, jv \in Int, n \in Int |->
        [lin \in Seq(Int) |->
            [fnj \in Int |->
                IF lin[1] < 0 \/ lin[2] < 0 \/ lin[3] < 0 \/ fnj <= 0 THEN NoColor
                ELSE IF n >= NEWTON_ROUNDS \/ Abs(fnj - yv) < Dec(0, 2000)
                THEN IF Max(lin[1], Max(lin[2], lin[3])) > Dec(100, 10000) THEN NoColor
                     ELSE argb_from_linrgb(lin)
                ELSE newton_on_j(hr, cv, yv,
                                 Min(400 * ONE, jv - Mul(jv, Div(fnj - yv, fnj) \div 2)), n + 1)
            ][y_from_linrgb(lin)]
        ][linrgb_from_jch(jv, cv, hr)]
    ][hue_radians, chroma, y, j, round]

find_result_by_j(hue_radians, chroma, y) ==
    newton_on_j(hue_radians, chroma, y, 11 * Sqrt(y), 1)

\* the states of the search of solve_to_int
SearchState ==
    [done : BOOLEAN, clamped : BOOLEAN, ans : Seq(Int), lo : Int, hi : Int,
     hue_radians : Int, y : Int, lstar : Int, steps : Int]

\* The state of the search before its first step: done when the colour asked
\* for is displayable (or has no chroma), else clamped, the chroma to be searched.
search_start(hue_degrees, chroma, lstar) ==
    [hd \in Int, cv \in Int, lv \in Int |->
        IF cv < Dec(0, 100) \/ lv < Dec(0, 100) \/ lv > Dec(99, 999900)
        THEN [done |-> TRUE, clamped |-> FALSE, ans |-> argb_from_lstar(lv), lo |-> 0, hi |-> 0,
              hue_radians |-> 0, y |-> 0, lstar |-> lv, steps |-> 0]
        ELSE
        [hr \in Int, y \in Int |->
            [exact_answer \in Seq(Int) |->
                IF exact_answer # NoColor
                THEN [done |-> TRUE, clamped |-> FALSE, ans |-> exact_answer, lo |-> cv, hi |-> cv,
                      hue_radians |-> hr, y |-> y, lstar |-> lv, steps |-> 0]
                ELSE [done |-> FALSE, clamped |-> TRUE, ans |-> NoColor, lo |-> 0,
                      hi |-> Min(cv, MAX_CHROMA),
                      hue_radians |-> hr, y |-> y, lstar |-> lv, steps |-> 0]
            ][find_result_by_j(hr, cv, y)]
        ][to_radians(sanitize_degrees_double(hd)), y_from_lstar(lv)]
    ][hue_degrees, chroma, lstar]

\* One step of the search along chroma: the interval [lo, hi] is halved, lo
\* keeping the largest chroma found displayable and ans its colour.
\* search_step that leaves the interval as it is when the trial chroma is not
\* displayable
search_step_no_progress(state) ==
    [s \in SearchState |->
        IF s.hi - s.lo < CHROMA_EPSILON
        THEN [s EXCEPT !.done = TRUE,
                       !.ans = IF s.ans = NoColor THEN argb_from_lstar(s.lstar) ELSE s.ans]
        ELSE
        [mid \in Int |->
            [r \in Seq(Int) |->
                IF r = NoColor
                THEN [s EXCEPT !.steps = s.steps + 1]
                ELSE [s EXCEPT !.lo = mid, !.ans = r, !.steps = s.steps + 1]
            ][find_result_by_j(s.hue_radians, mid, s.y)]
        ][s.lo + (s.hi - s.lo) \div 2]
    ][state]

search_step(state) ==
    [s \in SearchState |->
        IF s.hi - s.lo < CHROMA_EPSILON
        THEN [s EXCEPT !.done = TRUE,
                       !.ans = IF s.ans = NoColor THEN argb_from_lstar(s.lstar) ELSE s.ans]
        ELSE
        [mid \in Int |->
            [r \in Seq(Int) |->
                IF r = NoColor
                THEN [s EXCEPT !.hi = mid, !.steps = s.steps + 1]
                ELSE [s EXCEPT !.lo = mid, !.ans = r, !.steps = s.steps + 1]
            ][find_result_by_j(s.hue_radians, mid, s.y)]
        ][s.lo + (s.hi - s.lo) \div 2]
    ][state]

RECURSIVE search_run(_)
search_run(state) ==
    [s \in SearchState |-> IF s.done THEN s.ans ELSE search_run(search_step(s))][state]

solve_to_int(hue_degrees, chroma, lstar) ==
    search_run(search_start(hue_degrees, chroma, lstar))

---------------------------------------------------------------------------
(* hct/mod.rs *)

MaxOps == 2

\* the arguments the callers pass: in range, below it and above it
Hues == {-90 * ONE, 120 * ONE, 400 * ONE}
Chromas == {-10 * ONE, 30 * ONE, 73 * ONE, 200 * ONE}
Tones == {-20 * ONE, 0, 50 * ONE, 100 * ONE, 130 * ONE}

BLACK == <<255, 0, 0, 0>>
WHITE == <<255, 255, 255, 255>>
RED   == <<255, 255, 0, 0>>
GREEN == <<255, 0, 255, 0>>
BLUE  == <<255, 0, 0, 255>>
Colours == {BLACK, WHITE, RED, GREEN, BLUE, <<255, 119, 119, 119>>, <<255, 119, 0, 153>>,
            <<128, 119, 0, 153>>}

\* no search: the value of `search' before the solver is first called
NoHex == [status |-> "none", argb |-> NoColor]

NoSearch ==
    [done |-> TRUE, clamped |-> FALSE, ans |-> NoColor, lo |-> 0, hi |-> 0,
     hue_radians |-> 0, y |-> 0, lstar |-> 0, steps |-> 0]

\* the Hct value with the operation that made it, for `before'
Hct ==
    [hue |-> internal_hue, chroma |-> internal_chroma, tone |-> internal_tone,
     argb |-> argb, op |-> op, req |-> req, clamped |-> search.clamped]

\* Hct::set_internal_state
\* set_internal_state that keeps the requested hue, chroma and tone
set_internal_state_requested(c) ==
    \E cam \in {Cam16_from_argb(c)} :
        /\ argb' = c
        /\ internal_hue' = IF req = <<>> THEN cam.hue ELSE req[1]
        /\ internal_chroma' = IF req = <<>> THEN cam.chroma ELSE req[2]
        /\ internal_tone' = IF req = <<>> THEN lstar_from_argb(c) ELSE req[3]

\* set_internal_state that leaves the tone of the previous colour
set_internal_state_stale(c) ==
    \E cam \in {Cam16_from_argb(c)} :
        /\ argb' = c
        /\ internal_hue' = cam.hue
        /\ internal_chroma' = cam.chroma
        /\ internal_tone' = internal_tone

\* set_internal_state that makes the colour opaque before storing it
set_internal_state_opaque(c) ==
    \E cam \in {Cam16_from_argb(c)} :
        /\ argb' = <<255, c[2], c[3], c[4]>>
        /\ internal_hue' = cam.hue
        /\ internal_chroma' = cam.chroma
        /\ internal_tone' = lstar_from_argb(c)

\* set_internal_state that keeps the alpha the Hct holds
set_internal_state_alpha_kept(c) ==
    \E cam \in {Cam16_from_argb(c)} :
        /\ argb' = <<argb[1], c[2], c[3], c[4]>>
        /\ internal_hue' = cam.hue
        /\ internal_chroma' = cam.chroma
        /\ internal_tone' = lstar_from_argb(c)

set_internal_state(c) ==
    \E cam \in {Cam16_from_argb(c)} :
        /\ argb' = c
        /\ internal_hue' = cam.hue
        /\ internal_chroma' = cam.chroma
        /\ internal_tone' = lstar_from_argb(c)

\* an operation calls hct_solver::solve_to_int(hue, chroma, tone)
call_solver(name, hue, chroma, tone) ==
    /\ pc = "idle"
    /\ pc' = "solve"
    /\ op' = name
    /\ req' = <<hue, chroma, tone>>
    /\ before' = Hct
    /\ nops' = nops + 1
    /\ UNCHANGED <<internal_hue, internal_chroma, internal_tone, argb, search, ret,
                   hexin, hexout>>

\* Hct::from
From(hue, chroma, tone) ==
    /\ nops = 0
    /\ call_solver("from", hue, chroma, tone)

\* Hct::from_int
FromInt(c) ==
    /\ pc = "idle"
    /\ nops = 0
    /\ pc' = "set"
    /\ op' = "from_int"
    /\ req' = <<>>
    /\ ret' = c
    /\ before' = Hct
    /\ nops' = nops + 1
    /\ UNCHANGED <<internal_hue, internal_chroma, internal_tone, argb, search, hexin, hexout>>

\* Hct::set_hue
SetHue(hue) ==
    /\ 0 < nops /\ nops < MaxOps
    /\ call_solver("set_hue", hue, internal_chroma, internal_tone)

\* Hct::set_chroma
SetChroma(chroma) ==
    /\ 0 < nops /\ nops < MaxOps
    /\ call_solver("set_chroma", internal_hue, chroma, internal_tone)

\* set_tone that holds the hue and chroma requested by the previous call
SetTone_requested(tone) ==
    /\ 0 < nops /\ nops < MaxOps
    /\ call_solver("set_tone", IF req = <<>> THEN internal_hue ELSE req[1],
                   IF req = <<>> THEN internal_chroma ELSE req[2], tone)

\* Hct::set_tone
SetTone(tone) ==
    /\ 0 < nops /\ nops < MaxOps
    /\ call_solver("set_tone", internal_hue, internal_chroma, tone)

\* Hct::from(h.hue(), h.chroma(), h.tone()) on the value h at hand
FromSelf ==
    /\ 0 < nops /\ nops < MaxOps
    /\ call_solver("from_self", internal_hue, internal_chroma, internal_tone)

\* solve_to_int: the colour asked for is tried as it is
SolveStart ==
    /\ pc = "solve"
    /\ pc' = "search"
    /\ search' = search_start(req[1], req[2], req[3])
    /\ UNCHANGED <<internal_hue, internal_chroma, internal_tone, argb, op, req, ret, before,
                   nops, hexin, hexout>>

\* solve_to_int: one step of the search along chroma
SearchStep ==
    /\ pc = "search"
    /\ ~search.done
    /\ search' = search_step(search)
    /\ UNCHANGED <<internal_hue, internal_chroma, internal_tone, argb, pc, op, req, ret,
                   before, nops, hexin, hexout>>

\* solve_to_int returns
SolveReturn ==
    /\ pc = "search"
    /\ search.done
    /\ pc' = "set"
    /\ ret' = search.ans
    /\ UNCHANGED <<internal_hue, internal_chroma, internal_tone, argb, op, req, search,
                   before, nops, hexin, hexout>>

\* the operation stores the colour: set_internal_state(ret)
SetInternalState ==
    /\ pc = "set"
    /\ pc' = "idle"
    /\ set_internal_state(ret)
    /\ UNCHANGED <<op, req, search, ret, before, nops, hexin, hexout>>

\* Hct::default()
Init ==
    /\ internal_hue = 0
    /\ internal_chroma = 0
    /\ internal_tone = 0
    /\ argb = <<0, 0, 0, 0>>
    /\ pc = "idle"
    /\ op = "default"
    /\ req = <<>>
    /\ search = NoSearch
    /\ ret = NoColor
    /\ before = <<>>
    /\ nops = 0
    /\ hexin = <<>>
    /\ hexout = NoHex

Next ==
    \/ \E h \in Hues, c \in Chromas, t \in Tones : From(h, c, t)
    \/ \E c \in Colours : FromInt(c)
    \/ \E h \in Hues : SetHue(h)
    \/ \E c \in Chromas : SetChroma(c)
    \/ \E t \in Tones : SetTone(t)
    \/ FromSelf
    \/ SolveStart
    \/ SearchStep
    \/ SolveReturn
    \/ SetInternalState

Spec == Init /\ [][Next]_vars

\* a call that has started runs to its return: the caller is single-threaded
\* and nothing suspends the solver
FairSpec ==
    /\ Spec
    /\ WF_vars(SolveStart)
    /\ WF_vars(SearchStep)
    /\ WF_vars(SolveReturn)
    /\ WF_vars(SetInternalState)

---------------------------------------------------------------------------
(* Properties of the Hct value *)

\* an operation has returned
Returned(name) == pc = "idle" /\ op = name

\* C1 as stated: Hct::from(hue(C), chroma(C), tone(C)).to_int() is C in all
\* four channels, for every colour C.
C1_RoundTripAllChannels ==
    Returned("from_self") => argb = before.argb

\* C1: Hct::from(hue(C), chroma(C), tone(C)).to_int() has the red, green and
\* blue channels of C and alpha 255: it is C exactly when C is opaque.
C1_RoundTripOpaque ==
    Returned("from_self") =>
        argb = <<255, before.argb[2], before.argb[3], before.argb[4]>>

\* a colour that is neither a primary nor gray has made the round trip
C1_Witness ==
    /\ Returned("from_self")
    /\ before.op = "from_int"
    /\ before.argb = <<255, 119, 0, 153>>
    /\ argb = before.argb

\* C2: hue() is in [0, 360), tone() in [0, 100], chroma() is at least 0 and at
\* most the chroma of a displayable colour with the stored hue and tone, and an
\* argument out of range is not what is stored.
C2_RangeInvariant ==
    /\ 0 <= internal_hue /\ internal_hue < 360 * ONE
    /\ 0 <= internal_tone /\ internal_tone <= 100 * ONE
    /\ 0 <= internal_chroma
    /\ \E c \in {argb} : \E cam \in {Cam16_from_argb(c)} :
          /\ cam.hue = internal_hue
          /\ lstar_from_argb(c) = internal_tone
          /\ internal_chroma <= cam.chroma
    /\ (pc = "idle" /\ req # <<>>) =>
          /\ (req[1] < 0 \/ req[1] >= 360 * ONE) => internal_hue # req[1]
          /\ req[2] < 0 => internal_chroma # req[2]
          /\ (req[3] < 0 \/ req[3] > 100 * ONE) => internal_tone # req[3]

\* set_hue(400) on red has stored a hue near 40
C2_Witness ==
    /\ Returned("set_hue")
    /\ req[1] = 400 * ONE
    /\ before.argb = RED
    /\ internal_hue > 35 * ONE /\ internal_hue < 45 * ONE
    /\ internal_chroma > 30 * ONE

\* the scalars are those of the cached colour
Consistent ==
    \E cam \in {Cam16_from_argb(argb)} :
        /\ internal_hue = cam.hue
        /\ internal_chroma = cam.chroma
        /\ internal_tone = lstar_from_argb(argb)

\* C3: in every state the scalars are the CAM16 hue and chroma and the L* of
\* the cached colour, and a step that changes any of the four fields is the one
\* step that stores them all.
C3_Consistency ==
    /\ []Consistent
    /\ [][ <<internal_hue, internal_chroma, internal_tone, argb>>'
              # <<internal_hue, internal_chroma, internal_tone, argb>>
           => (pc = "set" /\ pc' = "idle" /\ argb' = ret) ]_vars

\* a mutator has replaced all four fields
C3_Witness ==
    /\ Returned("set_hue")
    /\ before.argb # argb
    /\ before.hue # internal_hue
    /\ before.chroma # internal_chroma
    /\ before.tone # internal_tone

\* C5: tone 0 gives opaque black and tone 100 opaque white, whatever the hue and
\* the chroma, through Hct::from and through set_tone.
C5_Extremes ==
    (pc = "idle" /\ op \in {"from", "set_tone"}) =>
        /\ req[3] = 0 => argb = BLACK
        /\ req[3] = 100 * ONE => argb = WHITE

\* set_tone(100) has turned a chromatic colour white
C5_Witness ==
    /\ Returned("set_tone")
    /\ req[3] = 100 * ONE
    /\ before.argb = RED
    /\ argb = WHITE

\* C9: Hct::from_int(c) stores c unchanged in all four channels, with the CAM16
\* hue and chroma and the L* of c, and calls no solver.
C9_FromInt ==
    op = "from_int" =>
        /\ pc \in {"set", "idle"}
        /\ search = NoSearch
        /\ pc = "idle" =>
              /\ argb = ret
              /\ internal_hue = Cam16_from_argb(ret).hue
              /\ internal_chroma = Cam16_from_argb(ret).chroma
              /\ internal_tone = lstar_from_argb(ret)

\* from_int has stored a translucent colour
C9_Witness ==
    /\ Returned("from_int")
    /\ argb = <<128, 119, 0, 153>>
    /\ internal_chroma > 70 * ONE

\* the solver did not reach the requested chroma at the requested hue and tone
Clamped(name) == Returned(name) /\ search.clamped

MAX_SEARCH_STEPS == Log2Floor(MAX_CHROMA \div CHROMA_EPSILON) + 1

\* C8: the search of every solver call takes at most MAX_SEARCH_STEPS steps,
\* whatever the hue, chroma and tone, and every call that has started returns.
C8_Termination ==
    /\ [](search.steps <= MAX_SEARCH_STEPS)
    /\ (pc = "solve") ~> (pc = "idle")

\* a call has returned after a search of the full length
C8_Witness ==
    /\ pc = "idle"
    /\ op \in {"from", "set_hue", "set_chroma", "set_tone"}
    /\ search.done
    /\ search.steps = MAX_SEARCH_STEPS

---------------------------------------------------------------------------
(* Cam16::from_argb followed by Cam16::viewed, applied to a colour *)

Levels == {0, 51, 102, 153, 204, 255}

CamColours ==
    {<<255, r, g, b>> : <<r, g, b>> \in Levels \X Levels \X Levels}
        \cup {<<255, 119, 119, 119>>, <<255, 119, 0, 153>>,
              <<128, 119, 0, 153>>, <<0, 255, 255, 255>>}

InitCam ==
    /\ internal_hue = 0
    /\ internal_chroma = 0
    /\ internal_tone = 0
    /\ argb \in CamColours
    /\ pc = "cam"
    /\ op = "default"
    /\ req = <<>>
    /\ search = NoSearch
    /\ ret = NoColor
    /\ before = <<>>
    /\ nops = 0
    /\ hexin = <<>>
    /\ hexout = NoHex

\* let cam = Cam16::from_argb(c); cam.viewed(ViewingConditions::default())
Viewed ==
    /\ pc = "cam"
    /\ pc' = "viewed"
    /\ op' = "viewed"
    /\ \E cam \in {Cam16_from_argb(argb)} :
          /\ internal_hue' = cam.hue
          /\ internal_chroma' = cam.chroma
          /\ ret' = Cam16_viewed(cam)
    /\ UNCHANGED <<internal_tone, argb, req, search, before, nops, hexin, hexout>>

NextCam ==
    \/ Viewed

SpecCam == InitCam /\ [][NextCam]_vars

\* C7 as stated: from_argb followed by viewed under the default viewing
\* conditions returns exactly the colour it was given.
C7_ReflexiveAllChannels ==
    pc = "viewed" => ret = argb

\* C7: from_argb followed by viewed under the default viewing conditions
\* returns the red, green and blue channels of the colour it was given, with
\* alpha 255: exactly the colour when it is opaque.
C7_ReflexiveOpaque ==
    pc = "viewed" => ret = <<255, argb[2], argb[3], argb[4]>>

\* a chromatic colour has come back from the appearance model
C7_Witness ==
    /\ pc = "viewed"
    /\ argb = <<255, 204, 51, 102>>
    /\ internal_chroma > 50 * ONE
    /\ ret = argb

---------------------------------------------------------------------------
(* utils/string.rs: argb_from_hex applied to a string *)

MaxHexLen == 9

HexAlphabet == {"#", "7", "F", "g"}

LOWER_DIGITS ==
    <<"0", "1", "2", "3", "4", "5", "6", "7", "8", "9", "a", "b", "c", "d", "e", "f">>

UPPER_DIGITS ==
    <<"0", "1", "2", "3", "4", "5", "6", "7", "8", "9", "A", "B", "C", "D", "E", "F">>

\* the value of a hexadecimal digit, -1 for any other character
hex_val(ch) ==
    IF \E i \in 1..16 : LOWER_DIGITS[i] = ch
    THEN (CHOOSE i \in 1..16 : LOWER_DIGITS[i] = ch) - 1
    ELSE IF \E i \in 1..16 : UPPER_DIGITS[i] = ch
    THEN (CHOOSE i \in 1..16 : UPPER_DIGITS[i] = ch) - 1
    ELSE -1

HexErr == <<-1>>

\* <[u8; N]>::from_hex(digits): Err unless digits are 2N hexadecimal digits
from_hex(digits, n) ==
    IF Len(digits) # 2 * n \/ \E i \in 1..Len(digits) : hex_val(digits[i]) < 0
    THEN HexErr
    ELSE [i \in 1..n |-> 16 * hex_val(digits[2 * i - 1]) + hex_val(digits[2 * i])]

\* hex.replace('#', "")
trimmed(hex) == SelectSeq(hex, LAMBDA ch : ch # "#")

Panicked == [status |-> "panic", argb |-> NoColor]

Returns(colour) == [status |-> "ok", argb |-> colour]

\* argb_from_hex that reads the eight digits as 'aarrggbb'
argb_from_hex_alpha_first(hex) ==
    LET trimmed_hex == trimmed(hex)
        digit(i) == from_hex(<<trimmed_hex[i], trimmed_hex[i]>>, 1)
    IN  CASE Len(trimmed_hex) = 3 ->
                IF HexErr \in {digit(1), digit(2), digit(3)}
                THEN Panicked
                ELSE Returns(<<255, digit(1)[1], digit(2)[1], digit(3)[1]>>)
          [] Len(trimmed_hex) = 6 ->
                LET rgb == from_hex(trimmed_hex, 3)
                IN  IF rgb = HexErr THEN Panicked
                    ELSE Returns(<<255, rgb[1], rgb[2], rgb[3]>>)
          [] Len(trimmed_hex) = 8 ->
                LET rgba == from_hex(trimmed_hex, 4)
                IN  IF rgba = HexErr THEN Panicked
                    ELSE Returns(<<rgba[1], rgba[2], rgba[3], rgba[4]>>)
          [] OTHER -> Panicked

\* argb_from_hex that returns black for a length it does not know
argb_from_hex_lenient(hex) ==
    LET trimmed_hex == trimmed(hex)
        digit(i) == from_hex(<<trimmed_hex[i], trimmed_hex[i]>>, 1)
    IN  CASE Len(trimmed_hex) = 3 ->
                IF HexErr \in {digit(1), digit(2), digit(3)}
                THEN Panicked
                ELSE Returns(<<255, digit(1)[1], digit(2)[1], digit(3)[1]>>)
          [] Len(trimmed_hex) = 6 ->
                LET rgb == from_hex(trimmed_hex, 3)
                IN  IF rgb = HexErr THEN Panicked
                    ELSE Returns(<<255, rgb[1], rgb[2], rgb[3]>>)
          [] Len(trimmed_hex) = 8 ->
                LET rgba == from_hex(trimmed_hex, 4)
                IN  IF rgba = HexErr THEN Panicked
                    ELSE Returns(<<rgba[4], rgba[1], rgba[2], rgba[3]>>)
          [] OTHER -> Returns(<<255, 0, 0, 0>>)

argb_from_hex(hex) ==
    LET trimmed_hex == trimmed(hex)
        digit(i) == from_hex(<<trimmed_hex[i], trimmed_hex[i]>>, 1)
    IN  CASE Len(trimmed_hex) = 3 ->
                IF HexErr \in {digit(1), digit(2), digit(3)}
                THEN Panicked
                ELSE Returns(<<255, digit(1)[1], digit(2)[1], digit(3)[1]>>)
          [] Len(trimmed_hex) = 6 ->
                LET rgb == from_hex(trimmed_hex, 3)
                IN  IF rgb = HexErr THEN Panicked
                    ELSE Returns(<<255, rgb[1], rgb[2], rgb[3]>>)
          [] Len(trimmed_hex) = 8 ->
                LET rgba == from_hex(trimmed_hex, 4)
                IN  IF rgba = HexErr THEN Panicked
                    ELSE Returns(<<rgba[4], rgba[1], rgba[2], rgba[3]>>)
          [] OTHER -> Panicked

InitHex ==
    /\ internal_hue = 0
    /\ internal_chroma = 0
    /\ internal_tone = 0
    /\ argb = <<0, 0, 0, 0>>
    /\ pc = "hex"
    /\ op = "default"
    /\ req = <<>>
    /\ search = NoSearch
    /\ ret = NoColor
    /\ before = <<>>
    /\ nops = 0
    /\ hexin = <<>>
    /\ hexout = NoHex

\* the caller builds the string
Push(ch) ==
    /\ pc = "hex"
    /\ Len(hexin) < MaxHexLen
    /\ hexin' = Append(hexin, ch)
    /\ UNCHANGED <<internal_hue, internal_chroma, internal_tone, argb, pc, op,
                   req, search, ret, before, nops, hexout>>

ArgbFromHex ==
    /\ pc = "hex"
    /\ pc' = "parsed"
    /\ op' = "argb_from_hex"
    /\ hexout' = argb_from_hex(hexin)
    /\ UNCHANGED <<internal_hue, internal_chroma, internal_tone, argb, req,
                   search, ret, before, nops, hexin>>

NextHex ==
    \/ \E ch \in HexAlphabet : Push(ch)
    \/ ArgbFromHex

SpecHex == InitHex /\ [][NextHex]_vars

\* the string without its '#' characters is 3, 6 or 8 hexadecimal digits
WellFormed(hex) ==
    /\ Len(trimmed(hex)) \in {3, 6, 8}
    /\ \A i \in 1..Len(trimmed(hex)) : hex_val(trimmed(hex)[i]) >= 0

\* C10: argb_from_hex of a string that, without its '#' characters, is not 3, 6
\* or 8 hexadecimal digits panics and returns no colour; a call either panics
\* or returns a colour.
C10_MalformedHexPanics ==
    pc = "parsed" =>
        /\ hexout.status \in {"panic", "ok"}
        /\ ~WellFormed(hexin) => hexout = Panicked
        /\ hexout.status = "ok" => Len(hexout.argb) = 4

\* a string of five digits and a string with a character that is no digit
\* have each been refused
C10_Witness ==
    /\ pc = "parsed"
    /\ hexin \in {<<"#", "7", "7", "F", "F", "7">>, <<"#", "7", "g", "F">>}
    /\ hexout = Panicked

\* the byte written by the digits at positions 2i - 1 and 2i
HexByte(digits, i) == 16 * hex_val(digits[2 * i - 1]) + hex_val(digits[2 * i])

\* each digit written twice
Doubled(digits) ==
    [i \in 1..(2 * Len(digits)) |-> digits[(i + 1) \div 2]]

\* C11: argb_from_hex accepts 3, 6 or 8 hexadecimal digits with or without a
\* leading '#'; 'rgb' gives what 'rrggbb' gives, with alpha 255; 'rrggbb' gives
\* [255, rr, gg, bb]; 'rrggbbaa' gives [aa, rr, gg, bb].
C11_HexForms ==
    (pc = "parsed" /\ WellFormed(hexin)) =>
        \E t \in {trimmed(hexin)} :
            /\ hexout.status = "ok"
            /\ hexout = argb_from_hex(t)
            /\ Len(t) = 3 =>
                  /\ hexout = argb_from_hex(Doubled(t))
                  /\ hexout.argb =
                        <<255, 17 * hex_val(t[1]), 17 * hex_val(t[2]), 17 * hex_val(t[3])>>
            /\ Len(t) = 6 =>
                  hexout.argb = <<255, HexByte(t, 1), HexByte(t, 2), HexByte(t, 3)>>
            /\ Len(t) = 8 =>
                  hexout.argb =
                      <<HexByte(t, 4), HexByte(t, 1), HexByte(t, 2), HexByte(t, 3)>>

\* '#7F7F777F' has been read as [127, 127, 127, 119]
C11_Witness ==
    /\ pc = "parsed"
    /\ hexin = <<"#", "7", "F", "7", "F", "7", "7", "7", "F">>
    /\ hexout = Returns(<<127, 127, 127, 119>>)

---------------------------------------------------------------------------
(* blend/mod.rs: harmonize applied to two colours *)

YELLOW == <<255, 255, 255, 0>>

BlendColours ==
    {RED, BLUE, GREEN, YELLOW, <<255, 119, 0, 153>>, <<255, 119, 119, 119>>,
     <<255, 0, 153, 119>>, <<128, 119, 0, 153>>, <<255, 255, 64, 0>>}

\* from_hct, to_hct and output_hue of harmonize, then its call of Hct::from
Harmonize(design_color, source_color) ==
    /\ pc = "idle"
    /\ nops = 0
    /\ \E hcts \in {[c \in {design_color, source_color} |->
                        [cam |-> Cam16_from_argb(c), tone |-> lstar_from_argb(c)]]} :
       \E from_hct \in {hcts[design_color]}, to_hct \in {hcts[source_color]} :
       \E rotation_degrees \in
             {Min(Mul(difference_degrees(from_hct.cam.hue, to_hct.cam.hue), ONE \div 2),
                  15 * ONE)} :
          /\ req' = << sanitize_degrees_double(
                           from_hct.cam.hue
                             + Mul(rotation_degrees,
                                   rotation_direction(from_hct.cam.hue, to_hct.cam.hue))),
                       from_hct.cam.chroma,
                       from_hct.tone >>
          /\ before' = [argb |-> design_color, hue |-> from_hct.cam.hue,
                        chroma |-> from_hct.cam.chroma, tone |-> from_hct.tone,
                        op |-> "from_int", req |-> <<>>, clamped |-> FALSE,
                        source |-> source_color, to_hue |-> to_hct.cam.hue]
    /\ pc' = "solve"
    /\ op' = "harmonize"
    /\ nops' = nops + 1
    /\ UNCHANGED <<internal_hue, internal_chroma, internal_tone, argb, search, ret,
                   hexin, hexout>>

UCS_M == Dec(0, 22800)
UCS_J == Dec(0, 7000)

\* Cam16::jstar, astar, bstar: the CAM16-UCS coordinates of an appearance
ucs_from_cam(cam) ==
    [v \in [hue : Int, chroma : Int, j : Int] |->
        [mstar \in Int, hr \in Int |->
            << Div(Mul(ONE + 100 * UCS_J, v.j), ONE + Mul(UCS_J, v.j)),
               Mul(mstar, Cos(hr)),
               Mul(mstar, Sin(hr)) >>
        ][Div(Ln(ONE + Mul(UCS_M, Mul(v.chroma, ViewingConditions.fl_root))), UCS_M),
          to_radians(v.hue)]
    ][cam]

\* f64::hypot for operands whose squares leave the fixed-point range:
\* max * sqrt(1 + (min / max)^2)
hypot_scaled(a, b) ==
    [hi \in Int, lo \in Int |->
        IF hi = 0 THEN 0
        ELSE [r \in Int |-> Mul(hi, Sqrt(ONE + Mul(r, r)))][DivPos(lo, hi)]
    ][Max(Abs(a), Abs(b)), Min(Abs(a), Abs(b))]

\* Cam16::from_jch as cam16ucs calls it: the appearance with the CAM16-UCS
\* coordinates jstar, astar, bstar
Cam16_from_jch(jstar, astar, bstar) ==
    [js \in Int, a \in Int, b \in Int |->
        [hue |-> hue_from_ab(a, b),
         chroma |-> Div(Div(Exp(Mul(hypot_scaled(a, b), UCS_M)) - ONE, UCS_M),
                        ViewingConditions.fl_root),
         j |-> Div(js, ONE - Mul(js - 100 * ONE, UCS_J))]
    ][jstar, astar, bstar]

Amounts == {0, ONE \div 2, ONE}

\* cam16ucs with the interpolation running from `to` towards `from`
cam16ucs_reversed(from_ucs, to_ucs, amount) ==
    [f \in Seq(Int), t \in Seq(Int), am \in Int |->
        Cam16_viewed(Cam16_from_jch(t[1] + Mul(f[1] - t[1], am),
                                    t[2] + Mul(f[2] - t[2], am),
                                    t[3] + Mul(f[3] - t[3], am)))
    ][from_ucs, to_ucs, amount]

\* cam16ucs(from, to, amount) given the CAM16-UCS coordinates of from and to
cam16ucs(from_ucs, to_ucs, amount) ==
    [f \in Seq(Int), t \in Seq(Int), am \in Int |->
        Cam16_viewed(Cam16_from_jch(f[1] + Mul(t[1] - f[1], am),
                                    f[2] + Mul(t[2] - f[2], am),
                                    f[3] + Mul(t[3] - f[3], am)))
    ][from_ucs, to_ucs, amount]

\* hct_hue: cam16ucs, the hue of its colour, then the call of Hct::from
HctHue(from, to, amount) ==
    /\ pc = "idle"
    /\ nops = 0
    /\ \E cams \in {[c \in {from, to} |-> Cam16_from_argb(c)]} :
       \E from_cam \in {cams[from]} :
       \E ucs \in {cam16ucs(ucs_from_cam(from_cam), ucs_from_cam(cams[to]), amount)} :
       \E ucs_cam \in {Cam16_from_argb(ucs)} :
       \E tone \in {lstar_from_argb(from)} :
          /\ req' = <<ucs_cam.hue, from_cam.chroma, tone>>
          /\ before' = [argb |-> from, hue |-> from_cam.hue,
                        chroma |-> from_cam.chroma, tone |-> tone,
                        op |-> "from_int", req |-> <<>>, clamped |-> FALSE,
                        source |-> to, to_hue |-> cams[to].hue,
                        amount |-> amount, ucs |-> ucs]
    /\ pc' = "solve"
    /\ op' = "hct_hue"
    /\ nops' = nops + 1
    /\ UNCHANGED <<internal_hue, internal_chroma, internal_tone, argb, search, ret,
                   hexin, hexout>>

NextBlend ==
    \/ \E design_color \in BlendColours, source_color \in BlendColours :
          Harmonize(design_color, source_color)
    \/ \E from \in BlendColours, to \in BlendColours, amount \in Amounts :
          HctHue(from, to, amount)
    \/ SolveStart
    \/ SearchStep
    \/ SolveReturn
    \/ SetInternalState

SpecBlend == Init /\ [][NextBlend]_vars

\* the distance between two positions on the circle of hues
CircularDistance(a, b) ==
    Min((a - b) % (360 * ONE), (b - a) % (360 * ONE))

\* a moved by d degrees towards b the short way round, upwards when both ways
\* are equally long
Towards(a, b, d) ==
    IF (b - a) % (360 * ONE) <= 180 * ONE
    THEN (a + d) % (360 * ONE)
    ELSE (a - d) % (360 * ONE)

\* C12: harmonize returns the solver's colour for the design hue moved towards
\* the source hue the short way round by min(half their distance, 15 degrees),
\* wrapped into [0, 360), with the chroma and tone of the design colour; the hue
\* moves by at most 15 degrees and not past the source hue, and every source
\* more than 30 degrees away on one side gives the same request.
C12_Harmonize ==
    op = "harmonize" =>
        \E d \in {CircularDistance(before.hue, before.to_hue)} :
            /\ req = << Towards(before.hue, before.to_hue,
                                Min(Mul(d, ONE \div 2), 15 * ONE)),
                        before.chroma, before.tone >>
            /\ 0 <= req[1] /\ req[1] < 360 * ONE
            /\ CircularDistance(before.hue, req[1]) <= Min(15 * ONE, d)
            /\ CircularDistance(req[1], before.to_hue) <= d
            /\ d > 30 * ONE =>
                  req[1] \in {(before.hue + 15 * ONE) % (360 * ONE),
                              (before.hue - 15 * ONE) % (360 * ONE)}
            /\ pc = "idle" =>
                  /\ argb = ret
                  /\ search.done
                  /\ ret = search.ans

\* harmonize(RED, GREEN) and harmonize(RED, YELLOW) have both returned
\* [255, 216, 86, 0]
C12_Witness ==
    /\ Returned("harmonize")
    /\ before.argb = RED
    /\ before.source = YELLOW
    /\ argb = <<255, 216, 86, 0>>
    /\ argb = solve_to_int(sanitize_degrees_double(Cam16_from_argb(RED).hue + 15 * ONE),
                           Cam16_from_argb(RED).chroma, lstar_from_argb(RED))


---------------------------------------------------------------------------
(* Independent conversions by concurrent callers. Each caller owns an Hct  *)
(* (hct/mod.rs takes it by &mut self) and the locals of its solver call;   *)
(* in this specification every variable is a function of the caller.       *)

Callers == {1, 2}

\* the conversions the callers run: Hct::from, one clamped and one not
ParRequests == {<<120 * ONE, 30 * ONE, 50 * ONE>>, <<400 * ONE, 73 * ONE, 50 * ONE>>,
                <<-90 * ONE, 200 * ONE, 50 * ONE>>}
\* and Hct::from_int
ParColours == {RED, <<128, 119, 0, 153>>}

\* Hct::from by caller c
ParFrom(c, hue, chroma, tone) ==
    /\ pc[c] = "idle"
    /\ nops[c] = 0
    /\ pc' = [pc EXCEPT ![c] = "solve"]
    /\ op' = [op EXCEPT ![c] = "from"]
    /\ req' = [req EXCEPT ![c] = <<hue, chroma, tone>>]
    /\ nops' = [nops EXCEPT ![c] = 1]
    /\ UNCHANGED <<internal_hue, internal_chroma, internal_tone, argb, search, ret, before,
                   hexin, hexout>>

\* Hct::from_int by caller c
ParFromInt(c, colour) ==
    /\ pc[c] = "idle"
    /\ nops[c] = 0
    /\ pc' = [pc EXCEPT ![c] = "set"]
    /\ op' = [op EXCEPT ![c] = "from_int"]
    /\ ret' = [ret EXCEPT ![c] = colour]
    /\ before' = [before EXCEPT ![c] = colour]
    /\ nops' = [nops EXCEPT ![c] = 1]
    /\ UNCHANGED <<internal_hue, internal_chroma, internal_tone, argb, search, req,
                   hexin, hexout>>

\* solve_to_int in caller c: the colour asked for is tried as it is
ParSolveStart(c) ==
    /\ pc[c] = "solve"
    /\ pc' = [pc EXCEPT ![c] = "search"]
    /\ search' = [search EXCEPT ![c] = search_start(req[c][1], req[c][2], req[c][3])]
    /\ UNCHANGED <<internal_hue, internal_chroma, internal_tone, argb, op, req, ret, before,
                   nops, hexin, hexout>>

\* solve_to_int in caller c: one step of the search along chroma
ParSearchStep(c) ==
    /\ pc[c] = "search"
    /\ ~search[c].done
    /\ search' = [search EXCEPT ![c] = search_step(search[c])]
    /\ UNCHANGED <<internal_hue, internal_chroma, internal_tone, argb, pc, op, req, ret,
                   before, nops, hexin, hexout>>

\* solve_to_int returns to caller c
ParSolveReturn(c) ==
    /\ pc[c] = "search"
    /\ search[c].done
    /\ pc' = [pc EXCEPT ![c] = "set"]
    /\ ret' = [ret EXCEPT ![c] = search[c].ans]
    /\ UNCHANGED <<internal_hue, internal_chroma, internal_tone, argb, op, req, search,
                   before, nops, hexin, hexout>>

\* set_internal_state writing one Hct that all callers share
ParSetInternalState_shared(c) ==
    /\ pc[c] = "set"
    /\ pc' = [pc EXCEPT ![c] = "idle"]
    /\ \E cam \in {Cam16_from_argb(ret[c])} :
          /\ argb' = [d \in Callers |-> ret[c]]
          /\ internal_hue' = [d \in Callers |-> cam.hue]
          /\ internal_chroma' = [d \in Callers |-> cam.chroma]
          /\ internal_tone' = [d \in Callers |-> lstar_from_argb(ret[c])]
    /\ UNCHANGED <<op, req, search, ret, before, nops, hexin, hexout>>

\* Hct::set_internal_state on the Hct of caller c
ParSetInternalState(c) ==
    /\ pc[c] = "set"
    /\ pc' = [pc EXCEPT ![c] = "idle"]
    /\ \E cam \in {Cam16_from_argb(ret[c])} :
          /\ argb' = [argb EXCEPT ![c] = ret[c]]
          /\ internal_hue' = [internal_hue EXCEPT ![c] = cam.hue]
          /\ internal_chroma' = [internal_chroma EXCEPT ![c] = cam.chroma]
          /\ internal_tone' = [internal_tone EXCEPT ![c] = lstar_from_argb(ret[c])]
    /\ UNCHANGED <<op, req, search, ret, before, nops, hexin, hexout>>

\* every caller holds Hct::default()
InitPar ==
    /\ internal_hue = [c \in Callers |-> 0]
    /\ internal_chroma = [c \in Callers |-> 0]
    /\ internal_tone = [c \in Callers |-> 0]
    /\ argb = [c \in Callers |-> <<0, 0, 0, 0>>]
    /\ pc = [c \in Callers |-> "idle"]
    /\ op = [c \in Callers |-> "default"]
    /\ req = [c \in Callers |-> <<>>]
    /\ search = [c \in Callers |-> NoSearch]
    /\ ret = [c \in Callers |-> NoColor]
    /\ before = [c \in Callers |-> NoColor]
    /\ nops = [c \in Callers |-> 0]
    /\ hexin = <<>>
    /\ hexout = NoHex

NextPar ==
    \/ \E c \in Callers, r \in ParRequests : ParFrom(c, r[1], r[2], r[3])
    \/ \E c \in Callers, colour \in ParColours : ParFromInt(c, colour)
    \/ \E c \in Callers : ParSolveStart(c)
    \/ \E c \in Callers : ParSearchStep(c)
    \/ \E c \in Callers : ParSolveReturn(c)
    \/ \E c \in Callers : ParSetInternalState(c)

SpecPar == InitPar /\ [][NextPar]_vars

\* the colour the conversion of caller c yields when it runs alone
Alone(c) ==
    IF op[c] = "from" THEN solve_to_int(req[c][1], req[c][2], req[c][3]) ELSE before[c]

Mutators == {"set_hue", "set_chroma", "set_tone"}

\* C15: a mutator calls the solver with the argument in place of one field and
\* the two other stored fields of the Hct it is called on, and leaves the Hct in
\* the state of Hct::from with those three arguments; the fields held are the
\* stored ones also when the call that made the Hct had asked for other values.
C15_MutatorAsFrom ==
    op \in Mutators =>
       /\ op = "set_hue" => req[1] \in Hues /\ req[2] = before.chroma /\ req[3] = before.tone
       /\ op = "set_chroma" => req[1] = before.hue /\ req[2] \in Chromas /\ req[3] = before.tone
       /\ op = "set_tone" => req[1] = before.hue /\ req[2] = before.chroma /\ req[3] \in Tones
       /\ pc = "idle" =>
             \E from \in {solve_to_int(req[1], req[2], req[3])} :
             \E cam \in {Cam16_from_argb(from)} :
                /\ argb = from
                /\ internal_hue = cam.hue
                /\ internal_chroma = cam.chroma
                /\ internal_tone = lstar_from_argb(from)

\* set_tone on an Hct whose chroma had been clamped: the chroma held is the
\* stored one, not the one requested
C15_Witness ==
    /\ Returned("set_tone")
    /\ before.op = "from"
    /\ before.clamped
    /\ before.req[2] = 200 * ONE
    /\ before.chroma < 150 * ONE
    /\ req[2] = before.chroma
    /\ req[3] = 50 * ONE
    /\ internal_chroma > 10 * ONE

---------------------------------------------------------------------------
(* Sequences of mutators on one Hct; `before' is the list of the values the *)
(* Hct has held, the latest first.                                          *)

MaxMutations == 2

\* a mutator that asks the solver for the largest chroma instead of the one held
Mutate_unclamped(name, hue, chroma, tone) ==
    /\ pc = "idle"
    /\ nops < MaxMutations
    /\ pc' = "solve"
    /\ op' = name
    /\ req' = <<hue, IF name = "set_chroma" THEN chroma ELSE MAX_CHROMA, tone>>
    /\ before' = <<Hct>> \o before
    /\ nops' = nops + 1
    /\ UNCHANGED <<internal_hue, internal_chroma, internal_tone, argb, search, ret,
                   hexin, hexout>>

\* a mutator calls hct_solver::solve_to_int(hue, chroma, tone)
Mutate(name, hue, chroma, tone) ==
    /\ pc = "idle"
    /\ nops < MaxMutations
    /\ pc' = "solve"
    /\ op' = name
    /\ req' = <<hue, chroma, tone>>
    /\ before' = <<Hct>> \o before
    /\ nops' = nops + 1
    /\ UNCHANGED <<internal_hue, internal_chroma, internal_tone, argb, search, ret,
                   hexin, hexout>>

\* the Hct is Hct::from_int of a colour
InitSeq ==
    /\ argb \in {RED, BLUE, BLACK, <<255, 119, 0, 153>>}
    /\ \E cam \in {Cam16_from_argb(argb)} :
          /\ internal_hue = cam.hue
          /\ internal_chroma = cam.chroma
    /\ internal_tone = lstar_from_argb(argb)
    /\ pc = "idle"
    /\ op = "from_int"
    /\ req = <<>>
    /\ search = NoSearch
    /\ ret = argb
    /\ before = <<>>
    /\ nops = 0
    /\ hexin = <<>>
    /\ hexout = NoHex

\* set_hue, set_chroma, set_tone, and set_tone back to the tone held before the
\* previous mutator
NextSeq ==
    \/ \E hue \in {120 * ONE, 400 * ONE} :
          Mutate("set_hue", hue, internal_chroma, internal_tone)
    \/ \E chroma \in {-10 * ONE, 0, 30 * ONE} :
          Mutate("set_chroma", internal_hue, chroma, internal_tone)
    \/ \E tone \in {20 * ONE, 90 * ONE} :
          Mutate("set_tone", internal_hue, internal_chroma, tone)
    \/ /\ before # <<>>
       /\ Mutate("set_tone", internal_hue, internal_chroma, before[1].tone)
    \/ SolveStart
    \/ SearchStep
    \/ SolveReturn
    \/ SetInternalState

SpecSeq == InitSeq /\ [][NextSeq]_vars

---------------------------------------------------------------------------
(* utils/math.rs on f64 values with their rounding.                        *)
(*                                                                         *)
(* An f64 is here <<hi, lo>>, standing for hi * 2^-20 + lo * 2^-50 with    *)
(* 0 <= lo < 2^30: the fixed-point value hi of the rest of the model and a *)
(* second limb of 30 more fraction bits.                                   *)

LIMB == 2^30

\* -x
f64_neg(x) ==
    [v \in Seq(Int) |-> IF v[2] = 0 THEN <<-v[1], 0>> ELSE <<-v[1] - 1, LIMB - v[2]>>][x]

\* x % 360.0: the remainder has the sign of x and is exact
f64_rem_360(x) ==
    [v \in Seq(Int) |->
        IF v[1] >= 0 THEN <<v[1] % (360 * ONE), v[2]>>
        ELSE [n \in Seq(Int) |-> f64_neg(<<n[1] % (360 * ONE), n[2]>>)][f64_neg(v)]
    ][x]

\* the spacing of the f64 values around hi * 2^-20 >= 0, in units of 2^-50:
\* 2^(e - 52) for 2^e <= value < 2^(e + 1), and 1 where it is finer than 2^-50
f64_ulp(hi) ==
    [v \in Int |-> IF v < 8 * ONE THEN 1 ELSE 2^(Log2Floor(v) - 22)][hi]

\* x + 360.0 for -360 < x < 0, rounded to the nearest f64, ties to even
f64_add_360(x) ==
    [v \in Seq(Int) |->
        [hi \in Int, ulp \in Int |->
            [down \in Int, rest \in Int |->
                [lo \in Int |-> IF lo = LIMB THEN <<hi + 1, 0>> ELSE <<hi, lo>>
                ][IF 2 * rest > ulp \/ (2 * rest = ulp /\ (down \div ulp) % 2 = 1)
                  THEN down + ulp ELSE down]
            ][v[2] - (v[2] % ulp), v[2] % ulp]
        ][v[1] + 360 * ONE, f64_ulp(v[1] + 360 * ONE)]
    ][x]

\* sanitize_degrees_double on f64 values
sanitize_degrees_double_f64(degrees) ==
    [d \in Seq(Int) |-> IF d[1] < 0 THEN f64_add_360(d) ELSE d][f64_rem_360(degrees)]

\* sanitize_degrees_int: the i32 remainder has the sign of the dividend
sanitize_degrees_int(degrees) ==
    [d \in Int |-> IF d < 0 THEN d + 360 ELSE d][Rem(degrees, 360)]

---------------------------------------------------------------------------
(* The functions of utils/math.rs applied to arguments of any size.         *)

\* f64 arguments: zero, negatives smaller than the spacing of the f64 values
\* below 360 (2^-50, 2^-45, 33 * 2^-50, 2^-44), and values of the fixed-point grid
F64Degrees ==
    {<<0, 0>>, <<-1, LIMB - 1>>, <<-1, LIMB - 32>>, <<-1, LIMB - 33>>, <<-1, LIMB - 64>>}
      \cup {<<k, 0>> : k \in {-1, 1, 360 * ONE - 1, -360 * ONE + 1}}
      \cup {<<d * ONE, 0>> : d \in {-1000, -720, -360, -96, 15, 180, 359, 360, 361, 720, 1000}}

\* i32 arguments
I32Degrees ==
    {-2147483647, -1000, -721, -720, -361, -360, -359, -96, -1, 0, 1, 15, 359, 360, 361,
     719, 720, 1000, 2147483647}

\* arguments in degrees, in [0, 360) and out of it
Degrees ==
    {d * ONE : d \in {-540, -360, -180, -90, 0, 10, 90, 170, 180, 190, 270, 350, 360, 540, 900}}
      \cup {Dec(12, 345670), Dec(112, 345670), Dec(160, 998760), 180 * ONE + 1, 180 * ONE - 1}

\* a function of utils/math.rs is called and returns
call_math(name, args, result) ==
    /\ pc = "idle"
    /\ nops = 0
    /\ op' = name
    /\ req' = args
    /\ ret' = result
    /\ nops' = nops + 1
    /\ UNCHANGED <<internal_hue, internal_chroma, internal_tone, argb, pc, search, before,
                   hexin, hexout>>

NextMath ==
    \/ \E degrees \in F64Degrees :
          call_math("sanitize_degrees_double", <<degrees>>, sanitize_degrees_double_f64(degrees))
    \/ \E degrees \in I32Degrees :
          call_math("sanitize_degrees_int", <<degrees>>, sanitize_degrees_int(degrees))
    \/ \E from \in Degrees, to \in Degrees :
          call_math("rotation_direction", <<from, to>>, rotation_direction(from, to))
    \/ \E a \in Degrees, b \in Degrees :
          call_math("difference_degrees", <<a, b>>, difference_degrees(a, b))

SpecMath == Init /\ [][NextMath]_vars

\* r - x is a multiple of 360, up to the spacing 2^-44 of the f64 values below 360
f64_congruent(r, x) ==
    \E d \in {<<(r[1] - x[1]) % (360 * ONE), r[2] - x[2]>>} :
       \/ d[1] = 0 /\ d[2] \in -64..64
       \/ d[1] = 1 /\ d[2] + LIMB \in -64..64
       \/ d[1] = 360 * ONE - 1 /\ d[2] - LIMB \in -64..64

\* C17: sanitize_degrees_double and sanitize_degrees_int return r with
\* 0 <= r < 360 that is congruent to the argument modulo 360; 360 is never
\* returned.
C17_Sanitized ==
    /\ op = "sanitize_degrees_double" =>
          /\ ret[1] >= 0
          /\ ret[1] < 360 * ONE
          /\ f64_congruent(ret, req[1])
    /\ op = "sanitize_degrees_int" =>
          /\ 0 <= ret /\ ret < 360
          /\ ret % 360 = req[1] % 360

\* C19: rotation_direction returns 1.0 or -1.0 and nothing else: 1.0 when
\* increasing the hue is the shorter way from `from` to `to`, -1.0 when
\* decreasing it is, and 1.0 when the two are half a turn apart or at the same
\* position.
C19_RotationDirection ==
    op = "rotation_direction" =>
       \E increasing \in {(req[2] - req[1]) % (360 * ONE)},
          decreasing \in {(req[1] - req[2]) % (360 * ONE)} :
          /\ ret \in {ONE, -ONE}
          /\ increasing < decreasing => ret = ONE
          /\ decreasing < increasing => ret = -ONE
          /\ increasing = 180 * ONE => ret = ONE
          /\ increasing = 0 => ret = ONE

\* the second test of utils/math.rs: from 160.99876 to 12.34567 the hue decreases
C19_Witness ==
    /\ op = "rotation_direction"
    /\ req = <<Dec(160, 998760), Dec(12, 345670)>>
    /\ ret = -ONE

---------------------------------------------------------------------------
(* scheme/mod.rs *)

\* the 29 roles in the order the Scheme is filled
Roles ==
    << "primary", "on_primary", "primary_container", "on_primary_container",
       "secondary", "on_secondary", "secondary_container", "on_secondary_container",
       "tertiary", "on_tertiary", "tertiary_container", "on_tertiary_container",
       "error", "on_error", "error_container", "on_error_container",
       "background", "on_background", "surface", "on_surface",
       "surface_variant", "on_surface_variant", "outline", "outline_variant",
       "shadow", "scrim", "inverse_surface", "inverse_on_surface", "inverse_primary" >>

\* light_from_core_palette: the palette and the tone of each role
light_from_core_palette ==
    << <<"a1", 40>>, <<"a1", 100>>, <<"a1", 90>>, <<"a1", 10>>,
       <<"a2", 40>>, <<"a2", 100>>, <<"a2", 90>>, <<"a2", 10>>,
       <<"a3", 40>>, <<"a3", 100>>, <<"a3", 90>>, <<"a3", 10>>,
       <<"error", 40>>, <<"error", 100>>, <<"error", 90>>, <<"error", 10>>,
       <<"n1", 99>>, <<"n1", 10>>, <<"n1", 99>>, <<"n1", 10>>,
       <<"n2", 90>>, <<"n2", 30>>, <<"n2", 50>>, <<"n2", 80>>,
       <<"n1", 0>>, <<"n1", 0>>, <<"n1", 20>>, <<"n1", 95>>, <<"a1", 80>> >>

\* a dark scheme that takes the neutral tones 99 and 95 of the light one
dark_from_core_palette_near_white ==
    << <<"a1", 80>>, <<"a1", 20>>, <<"a1", 30>>, <<"a1", 90>>,
       <<"a2", 80>>, <<"a2", 20>>, <<"a2", 30>>, <<"a2", 90>>,
       <<"a3", 80>>, <<"a3", 20>>, <<"a3", 30>>, <<"a3", 90>>,
       <<"error", 80>>, <<"error", 20>>, <<"error", 30>>, <<"error", 90>>,
       <<"n1", 10>>, <<"n1", 99>>, <<"n1", 10>>, <<"n1", 99>>,
       <<"n2", 30>>, <<"n2", 80>>, <<"n2", 60>>, <<"n2", 30>>,
       <<"n1", 0>>, <<"n1", 0>>, <<"n1", 95>>, <<"n1", 20>>, <<"a1", 40>> >>

\* dark_from_core_palette: the palette and the tone of each role
dark_from_core_palette ==
    << <<"a1", 80>>, <<"a1", 20>>, <<"a1", 30>>, <<"a1", 90>>,
       <<"a2", 80>>, <<"a2", 20>>, <<"a2", 30>>, <<"a2", 90>>,
       <<"a3", 80>>, <<"a3", 20>>, <<"a3", 30>>, <<"a3", 90>>,
       <<"error", 80>>, <<"error", 20>>, <<"error", 30>>, <<"error", 90>>,
       <<"n1", 10>>, <<"n1", 90>>, <<"n1", 10>>, <<"n1", 90>>,
       <<"n2", 30>>, <<"n2", 80>>, <<"n2", 60>>, <<"n2", 30>>,
       <<"n1", 0>>, <<"n1", 0>>, <<"n1", 90>>, <<"n1", 20>>, <<"a1", 40>> >>

\* the CorePalette handed in: hue and chroma of its six tonal palettes
CorePalettes ==
    { [a1 |-> <<hue, 48 * ONE>>, a2 |-> <<hue, 16 * ONE>>,
       a3 |-> <<(hue + 60 * ONE) % (360 * ONE), 24 * ONE>>,
       n1 |-> <<hue, 4 * ONE>>, n2 |-> <<hue, 8 * ONE>>,
       error |-> <<25 * ONE, 84 * ONE>>] : hue \in {27 * ONE, 282 * ONE} }

\* the next field of the Scheme: core.<palette>.tone(tone), which asks
\* Hct::from(hue, chroma, tone) for the colour; the colour of the field before
\* it goes into the Scheme, and the last one when the Scheme is returned
tone(palette, t) ==
    /\ pc = "idle"
    /\ nops < Len(Roles)
    /\ pc' = "solve"
    /\ op' = Roles[nops + 1]
    /\ req' = <<before.core[palette][1], before.core[palette][2], t * ONE>>
    /\ before' = [before EXCEPT !.palette = palette, !.tone = t,
                                !.scheme = IF nops = 0 THEN <<>> ELSE Append(@, argb)]
    /\ nops' = nops + 1
    /\ UNCHANGED <<internal_hue, internal_chroma, internal_tone, argb, search, ret,
                   hexin, hexout>>

InitScheme ==
    /\ internal_hue = 0
    /\ internal_chroma = 0
    /\ internal_tone = 0
    /\ argb = <<0, 0, 0, 0>>
    /\ pc = "idle"
    /\ op = "default"
    /\ req = <<>>
    /\ search = NoSearch
    /\ ret = NoColor
    /\ before \in [core : CorePalettes, variant : {"light", "dark"}, palette : {""},
                   tone : {0}, scheme : {<<>>}]
    /\ nops = 0
    /\ hexin = <<>>
    /\ hexout = NoHex

NextScheme ==
    \/ /\ before.variant = "light"
       /\ nops < Len(Roles)
       /\ \E call \in {light_from_core_palette[nops + 1]} : tone(call[1], call[2])
    \/ /\ before.variant = "dark"
       /\ nops < Len(Roles)
       /\ \E call \in {dark_from_core_palette[nops + 1]} : tone(call[1], call[2])
    \/ /\ pc = "idle"
       /\ nops = Len(Roles)
       /\ pc' = "done"
       /\ before' = [before EXCEPT !.scheme = Append(@, argb)]
       /\ UNCHANGED <<internal_hue, internal_chroma, internal_tone, argb, op, req, search,
                      ret, nops, hexin, hexout>>
    \/ SolveStart
    \/ SearchStep
    \/ SolveReturn
    \/ SetInternalState

SpecScheme == InitScheme /\ [][NextScheme]_vars

\* C18 as stated: every tone argument passed for any of the 29 roles, light or
\* dark, is a multiple of 10 in [0, 100].
C18_TonesMultiplesOfTen ==
    nops > 0 =>
       /\ nops <= 29
       /\ before.tone \in {10 * k : k \in 0..10}
       /\ req[3] = before.tone * ONE

\* C18: every tone argument passed for any of the 29 roles is a whole number in
\* [0, 100]; it is a multiple of 10 except in the light scheme for background and
\* surface (99) and inverse_on_surface (95); the dark scheme passes multiples of
\* 10 only.
C18_ToneStops ==
    nops > 0 =>
       /\ nops <= 29
       /\ op = Roles[nops]
       /\ before.tone \in 0..100
       /\ req[3] = before.tone * ONE
       /\ \/ before.tone \in {10 * k : k \in 0..10}
          \/ before.variant = "light" /\ op \in {"background", "surface"} /\ before.tone = 99
          \/ before.variant = "light" /\ op = "inverse_on_surface" /\ before.tone = 95

\* the light scheme has asked the neutral palette for tone 99 for its background
C18_Witness ==
    /\ pc = "idle"
    /\ before.variant = "light"
    /\ op = "background"
    /\ req[3] = 99 * ONE
    /\ Len(before.scheme) = 16
    /\ argb[2] > 245 /\ argb # WHITE

---------------------------------------------------------------------------
(* scheme/mod.rs: Role, Role::iterator and the Index of a Scheme by a Role. *)
(* A role is written as the words of its name; CamelCase is its tag in the   *)
(* enum and snake_case the name of the Scheme field.                        *)

\* enum Role
Role ==
    { <<"Primary">>, <<"On", "Primary">>, <<"Primary", "Container">>,
      <<"On", "Primary", "Container">>, <<"Secondary">>, <<"On", "Secondary">>,
      <<"Secondary", "Container">>, <<"On", "Secondary", "Container">>, <<"Tertiary">>,
      <<"On", "Tertiary">>, <<"Tertiary", "Container">>, <<"On", "Tertiary", "Container">>,
      <<"Error">>, <<"On", "Error">>, <<"Error", "Container">>,
      <<"On", "Error", "Container">>, <<"Background">>, <<"On", "Background">>,
      <<"Surface">>, <<"On", "Surface">>, <<"Surface", "Variant">>,
      <<"On", "Surface", "Variant">>, <<"Outline">>, <<"Outline", "Variant">>,
      <<"Shadow">>, <<"Scrim">>, <<"Inverse", "Surface">>,
      <<"Inverse", "On", "Surface">>, <<"Inverse", "Primary">> }

\* the array ROLES of Role::iterator
ROLES ==
    << <<"Primary">>, <<"On", "Primary">>, <<"Primary", "Container">>,
       <<"On", "Primary", "Container">>, <<"Secondary">>, <<"On", "Secondary">>,
       <<"Secondary", "Container">>, <<"On", "Secondary", "Container">>, <<"Tertiary">>,
       <<"On", "Tertiary">>, <<"Tertiary", "Container">>, <<"On", "Tertiary", "Container">>,
       <<"Error">>, <<"On", "Error">>, <<"Error", "Container">>,
       <<"On", "Error", "Container">>, <<"Background">>, <<"On", "Background">>,
       <<"Surface">>, <<"On", "Surface">>, <<"Surface", "Variant">>,
       <<"On", "Surface", "Variant">>, <<"Outline">>, <<"Outline", "Variant">>,
       <<"Shadow">>, <<"Scrim">>, <<"Inverse", "Surface">>,
       <<"Inverse", "On", "Surface">>, <<"Inverse", "Primary">> >>

RECURSIVE CamelCase(_)
\* the tag of a role, e.g. OnPrimary
CamelCase(role) ==
    IF Len(role) = 1 THEN role[1] ELSE role[1] \o CamelCase(Tail(role))

\* the words of the roles in lower case
lower_case ==
    [Primary |-> "primary", Secondary |-> "secondary", Tertiary |-> "tertiary",
     Error |-> "error", On |-> "on", Container |-> "container",
     Background |-> "background", Surface |-> "surface", Variant |-> "variant",
     Outline |-> "outline", Shadow |-> "shadow", Scrim |-> "scrim",
     Inverse |-> "inverse"]

RECURSIVE snake_case(_)
\* the name of the Scheme field of a role, e.g. on_primary
snake_case(role) ==
    IF Len(role) = 1 THEN lower_case[role[1]]
    ELSE lower_case[role[1]] \o "_" \o snake_case(Tail(role))

\* the match of Index::index with the arms of shadow and scrim exchanged
index_match_exchanged ==
    [Primary |-> "primary", OnPrimary |-> "on_primary",
     PrimaryContainer |-> "primary_container", OnPrimaryContainer |-> "on_primary_container",
     Secondary |-> "secondary", OnSecondary |-> "on_secondary",
     SecondaryContainer |-> "secondary_container", OnSecondaryContainer |-> "on_secondary_container",
     Tertiary |-> "tertiary", OnTertiary |-> "on_tertiary",
     TertiaryContainer |-> "tertiary_container", OnTertiaryContainer |-> "on_tertiary_container",
     Error |-> "error", OnError |-> "on_error",
     ErrorContainer |-> "error_container", OnErrorContainer |-> "on_error_container",
     Background |-> "background", OnBackground |-> "on_background",
     Surface |-> "surface", OnSurface |-> "on_surface",
     SurfaceVariant |-> "surface_variant", OnSurfaceVariant |-> "on_surface_variant",
     Outline |-> "outline", OutlineVariant |-> "outline_variant",
     Shadow |-> "scrim", Scrim |-> "shadow",
     InverseSurface |-> "inverse_surface", InverseOnSurface |-> "inverse_on_surface",
     InversePrimary |-> "inverse_primary"]

\* the match of Index::index: the field each Role tag selects
index_match ==
    [Primary |-> "primary", OnPrimary |-> "on_primary",
     PrimaryContainer |-> "primary_container", OnPrimaryContainer |-> "on_primary_container",
     Secondary |-> "secondary", OnSecondary |-> "on_secondary",
     SecondaryContainer |-> "secondary_container", OnSecondaryContainer |-> "on_secondary_container",
     Tertiary |-> "tertiary", OnTertiary |-> "on_tertiary",
     TertiaryContainer |-> "tertiary_container", OnTertiaryContainer |-> "on_tertiary_container",
     Error |-> "error", OnError |-> "on_error",
     ErrorContainer |-> "error_container", OnErrorContainer |-> "on_error_container",
     Background |-> "background", OnBackground |-> "on_background",
     Surface |-> "surface", OnSurface |-> "on_surface",
     SurfaceVariant |-> "surface_variant", OnSurfaceVariant |-> "on_surface_variant",
     Outline |-> "outline", OutlineVariant |-> "outline_variant",
     Shadow |-> "shadow", Scrim |-> "scrim",
     InverseSurface |-> "inverse_surface", InverseOnSurface |-> "inverse_on_surface",
     InversePrimary |-> "inverse_primary"]


\* Index::index
index(scheme, role) == scheme[index_match[CamelCase(role)]]

\* Scheme values whose 29 fields hold 29 different colours
Schemes ==
    { [field \in {Roles[i] : i \in 1..Len(Roles)} |->
          <<255, k, CHOOSE i \in 1..Len(Roles) : Roles[i] = field, 0>>] : k \in {0, 128, 255} }

\* scheme[&role]
Index(role) ==
    /\ pc = "idle"
    /\ op' = "index"
    /\ req' = <<role>>
    /\ ret' = index(before, role)
    /\ UNCHANGED <<internal_hue, internal_chroma, internal_tone, argb, pc, search, before,
                   nops, hexin, hexout>>

\* Role::iterator()
Iterator ==
    /\ pc = "idle"
    /\ pc' = "iter"
    /\ op' = "iterator"
    /\ req' = <<>>
    /\ nops' = 0
    /\ UNCHANGED <<internal_hue, internal_chroma, internal_tone, argb, search, ret, before,
                   hexin, hexout>>

\* the iterator yields the next role of ROLES and the loop reads scheme[role]
IteratorNext ==
    /\ pc = "iter"
    /\ nops < Len(ROLES)
    /\ nops' = nops + 1
    /\ req' = Append(req, ROLES[nops + 1])
    /\ ret' = index(before, ROLES[nops + 1])
    /\ UNCHANGED <<internal_hue, internal_chroma, internal_tone, argb, pc, op, search,
                   before, hexin, hexout>>

\* the iterator is exhausted
IteratorEnd ==
    /\ pc = "iter"
    /\ nops = Len(ROLES)
    /\ pc' = "idle"
    /\ op' = "iterated"
    /\ UNCHANGED <<internal_hue, internal_chroma, internal_tone, argb, req, search, ret,
                   before, nops, hexin, hexout>>

InitRole ==
    /\ internal_hue = 0
    /\ internal_chroma = 0
    /\ internal_tone = 0
    /\ argb = <<0, 0, 0, 0>>
    /\ pc = "idle"
    /\ op = "default"
    /\ req = <<>>
    /\ search = NoSearch
    /\ ret = NoColor
    /\ before \in Schemes
    /\ nops = 0
    /\ hexin = <<>>
    /\ hexout = NoHex

NextRole ==
    \/ \E role \in Role : Index(role)
    \/ Iterator
    \/ IteratorNext
    \/ IteratorEnd

SpecRole == InitRole /\ [][NextRole]_vars

\* C21: indexing a Scheme by any of the 29 roles returns the field whose name is
\* the role's name, no other role returns that field, and Role::iterator yields
\* the 29 roles, each exactly once.
C21_RoleMapping ==
    /\ Cardinality(Role) = 29
    /\ DOMAIN index_match = {CamelCase(role) : role \in Role}
    /\ op = "index" =>
          /\ ret = before[snake_case(req[1])]
          /\ \A role \in Role \ {req[1]} :
                /\ index_match[CamelCase(role)] # index_match[CamelCase(req[1])]
                /\ index(before, role) # ret
    /\ op \in {"iterator", "iterated"} =>
          /\ Len(req) = nops
          /\ \A i \in 1..Len(req) : req[i] \in Role
          /\ \A i \in 1..Len(req), j \in 1..Len(req) : req[i] = req[j] => i = j
          /\ nops > 0 => ret = before[snake_case(req[nops])]
    /\ op = "iterated" =>
          /\ {req[i] : i \in 1..Len(req)} = Role
          /\ Len(req) = 29

\* the iterator has yielded all the roles, the last one inverse_primary
C21_Witness ==
    /\ pc = "idle"
    /\ op = "iterated"
    /\ Len(req) = 29
    /\ req[28] = <<"Inverse", "On", "Surface">>
    /\ ret = before["inverse_primary"]
    /\ ret = <<255, 128, 29, 0>>

---------------------------------------------------------------------------
(* utils/string.rs: hex_from_argb, and argb_from_hex of its result. *)

\* hex::encode: two lower-case digits for each byte
hex_encode(bytes) ==
    [i \in 1..(2 * Len(bytes)) |->
        LOWER_DIGITS[(IF i % 2 = 1 THEN bytes[(i + 1) \div 2] \div 16
                      ELSE bytes[i \div 2] % 16) + 1]]

\* hex_from_argb that writes the alpha first
hex_from_argb_alpha_first(c) ==
    LET a == alpha_from_argb(c)
        r == red_from_argb(c)
        g == green_from_argb(c)
        b == blue_from_argb(c)
        hex_value == IF a < 255 THEN hex_encode(<<a, r, g, b>>) ELSE hex_encode(<<r, g, b>>)
    IN  <<"#">> \o hex_value

hex_from_argb(c) ==
    LET a == alpha_from_argb(c)
        r == red_from_argb(c)
        g == green_from_argb(c)
        b == blue_from_argb(c)
        hex_value == IF a < 255 THEN hex_encode(<<r, g, b, a>>) ELSE hex_encode(<<r, g, b>>)
    IN  <<"#">> \o hex_value

\* the values a channel takes: the ends, one digit, both digits, the tests' values
Channels == {0, 1, 15, 16, 119, 128, 153, 254, 255}

\* the caller formats a colour
HexFromArgb(c) ==
    /\ pc = "hex"
    /\ nops = 0
    /\ hexin' = hex_from_argb(c)
    /\ before' = c
    /\ op' = "hex_from_argb"
    /\ nops' = nops + 1
    /\ UNCHANGED <<internal_hue, internal_chroma, internal_tone, argb, pc, req, search, ret,
                   hexout>>

NextHexRound ==
    \/ \E a \in Channels, r \in Channels, g \in Channels, b \in Channels :
          HexFromArgb(<<a, r, g, b>>)
    \/ ArgbFromHex

SpecHexRound == InitHex /\ [][NextHexRound]_vars

\* C22: hex_from_argb(c) is '#' and six lower-case digits 'rrggbb' when the
\* alpha of c is 255 and '#' and eight digits 'rrggbbaa' when it is below, and
\* argb_from_hex of it is c, alpha included.
C22_HexRoundTrip ==
    nops > 0 =>
       /\ hexin[1] = "#"
       /\ Len(hexin) = IF before[1] = 255 THEN 7 ELSE 9
       /\ \A i \in 2..Len(hexin) : \E d \in 1..16 : LOWER_DIGITS[d] = hexin[i]
       /\ \A k \in 1..3 :
             16 * hex_val(hexin[2 * k]) + hex_val(hexin[2 * k + 1]) = before[k + 1]
       /\ before[1] < 255 => 16 * hex_val(hexin[8]) + hex_val(hexin[9]) = before[1]
       /\ pc = "parsed" => hexout = Returns(before)

\* the translucent colour of the tests has gone to '#77009980' and back
C22_Witness ==
    /\ pc = "parsed"
    /\ before = <<128, 119, 0, 153>>
    /\ hexin = <<"#", "7", "7", "0", "0", "9", "9", "8", "0">>
    /\ hexout = Returns(<<128, 119, 0, 153>>)

---------------------------------------------------------------------------
(* The alpha of an Hct: Hct::from, Hct::from_int of opaque and translucent  *)
(* colours, and the mutators called with a new value or with the value held *)

NextAlpha ==
    \/ \E h \in {120 * ONE}, c \in {30 * ONE, 200 * ONE}, t \in {0, 50 * ONE, 100 * ONE} :
          From(h, c, t)
    \/ \E c \in Colours \cup {<<0, 119, 0, 153>>, <<254, 0, 0, 0>>, <<1, 255, 255, 255>>} :
          FromInt(c)
    \/ \E h \in {400 * ONE, internal_hue} : SetHue(h)
    \/ \E c \in {30 * ONE, internal_chroma} : SetChroma(c)
    \/ \E t \in {50 * ONE, internal_tone} : SetTone(t)
    \/ SolveStart
    \/ SearchStep
    \/ SolveReturn
    \/ SetInternalState

SpecAlpha == Init /\ [][NextAlpha]_vars

\* C23: to_int() of an Hct returned by Hct::from or left by set_hue, set_chroma
\* or set_tone has alpha 255; Hct::from_int holds the colour it was given, alpha
\* included; so a mutator called on the from_int of a colour with alpha below 255
\* leaves alpha 255 in place of it, also when the value it is given is the one held.
C23_AlphaHandling ==
    pc = "idle" =>
       /\ op \in {"from"} \cup Mutators => alpha_from_argb(argb) = 255
       /\ op = "from_int" => argb = ret /\ alpha_from_argb(argb) = alpha_from_argb(ret)
       /\ (op \in Mutators /\ before.op = "from_int" /\ alpha_from_argb(before.argb) < 255) =>
             /\ alpha_from_argb(argb) = 255
             /\ alpha_from_argb(argb) # alpha_from_argb(before.argb)

\* set_hue with the hue held, on the from_int of a colour with alpha 128
C23_Witness ==
    /\ pc = "idle"
    /\ op = "set_hue"
    /\ before.op = "from_int"
    /\ before.argb = <<128, 119, 0, 153>>
    /\ req = <<before.hue, before.chroma, before.tone>>
    /\ alpha_from_argb(argb) = 255
====
